---- MODULE Spec2Model ----
(***************************************************************************)
(* KindleGarden bot: the upload handler, the bounded conversion queue, the *)
(* single conversion worker and the preference store.                      *)
(*                                                                         *)
(* The program runs on one asyncio event loop.  A coroutine runs until it  *)
(* awaits a call that suspends; every action below is one such run: from   *)
(* the return of one awaited call to the start of the next.  The external  *)
(* tools are run with the blocking subprocess.run, so while the worker is  *)
(* inside one of them no other coroutine takes a step (Blocked).           *)
(* The Application is built without concurrent_updates, so the dispatcher  *)
(* handles one update at a time: there is one front-end position, hpc.     *)
(***************************************************************************)
EXTENDS Integers, Sequences, FiniteSets, TLC

\* ------------------------------------------------------------------ bounds

\* A run has a budget of uploads that pass validation (uuid4 task ids drawn),
\* of injected failures (chat calls that raise, downloads that fail) and of
\* settings callbacks and of books in which no usable cover is found:
\* MaxJobs uploads and nothing else, or MaxFaultJobs uploads and MaxFaults
\* failures, or MaxPrefJobs uploads and MaxSets settings callbacks, or
\* MaxCoverlessJobs uploads of which MaxCoverless have no usable cover.
MaxJobs == 6
MaxFaultJobs == 2
MaxFaults == 2
MaxPrefJobs == 1
MaxSets == 2
MaxCoverlessJobs == 2
MaxCoverless == 1
Budgets ==
  { <<MaxJobs, 0, 0, 0>>, <<MaxFaultJobs, MaxFaults, 0, 0>>,
    <<MaxPrefJobs, 0, MaxSets, 0>>, <<MaxCoverlessJobs, 0, 0, MaxCoverless>> }

\* The budget of the runs checked under fairness.
MaxFairJobs == 2
MaxFairFaults == 1

\* The users who upload, and the users who press the settings buttons.
Users == {1}
SettingsUsers == {1, 2}

\* ------------------------------------------------------- program constants

\* conversion_queue = asyncio.Queue(maxsize=5)
QueueMaxSize == 5

\* doc.file_size > 50 * 1024 * 1024
MaxFileSize == 50 * 1024 * 1024

\* The formats of the settings keyboard (callback_data "setfmt:<fmt>").
Formats == {"azw3", "mobi", "epub"}

\* get_preferred_format: the value returned when the user has no row.
DefaultFormat == "azw3"

\* supported_formats = ['.fb2', '.fb2.zip', '.epub'], each a dot-separated
\* suffix: the name parts that follow its dots.
supported_formats == {<<"fb2">>, <<"fb2", "zip">>, <<"epub">>}

\* ------------------------------------------------------------------ inputs

\* The <fmt> of the callback queries handle_format_setting is called for:
\* the handler is registered for every data that matches "^setfmt:", so for
\* the data of the three buttons and for data no button carries (a callback
\* query is sent by the client, which is free in the data it sends).
CallbackFormats == Formats \cup {"pdf"}

\* File names, as their dot-separated parts: "book.fb2" is <<"book", "fb2">>.
\* <<>> is a document without a file name (doc.file_name is None).
FileNames ==
  { <<"Book", "FB2">>, <<"book", "fb2", "zip">>, <<"book", "epub">>,
    <<"book", "txt">>, <<>> }

\* doc.file_size, in bytes.
FileSizes == {MaxFileSize, MaxFileSize + 1}

\* What get_file / download_to_drive / stat do with an accepted upload.
DownloadOutcomes == {"ok", "empty", "error", "error_partial"}

\* unpack_if_needed: the input is no ZIP; it is a ZIP with an .fb2 that was
\* extracted; it is a ZIP that could not be unpacked.
UnpackOutcomes == {"not_zip", "unpacked", "failed"}

\* extract_cover_improved: a cover over 1000 bytes was written; a smaller file
\* was written to cover_path; nothing was written.
CoverOutcomes == {"found", "small", "none"}

\* ebook-convert: how the process ended and what it left at the output path.
ConvertOutcomes ==
  [exit : {"zero", "nonzero", "timeout"}, out : {"missing", "empty", "data"}]

\* An outbound chat call returns or raises.
CallOutcomes == {"ok", "raises"}

\* The key a task dict does not hold yet.
Missing == "<missing>"

NoTask == 0
NoUpdate == [user |-> 0, name |-> <<>>, size |-> 0]
NoConvert == [exit |-> "none", out |-> "none"]

VARIABLES
  conversion_queue,  \* the asyncio.Queue: task ids, the head is the next get()
  active_tasks,      \* the registry: task id -> task dict
  user_settings,     \* the rows of table user_settings
  files,             \* the files on disk: <<kind, task id>>
  nextId,            \* the next fresh task id (uuid4)
  hpc,               \* front end: where the handler of the current update is
  hupd,              \* front end: the update being handled
  htask,             \* front end: the task id of the update being handled
  hreply,            \* front end: the reply the handler is sending
  wpc,               \* worker: where conversion_worker is
  task,              \* worker: the task id it dequeued
  cleanup_unpacked,  \* worker: local cleanup_unpacked
  conv,              \* worker: how ebook-convert ended for the task
  sent,              \* chat: the messages the worker sent, per task
  downloads,         \* chat: task ids whose file was requested (get_file)
  enqueued,          \* history: task ids in the order they were put
  started,           \* history: task ids in the order they were dequeued
  convRuns,          \* history: task id -> ebook-convert invocations
  trouble,           \* history: an iteration failed to convert, or raised
  uploadsLeft,       \* budget: uploads that may still pass validation
  faultsLeft,        \* budget: failures that may still be injected
  settingsLeft,      \* budget: settings callbacks that may still arrive
  lastSet,           \* history: user -> the format of the last set, or "none"
  coverlessLeft      \* budget: books without a usable cover still to come

vars ==
  << conversion_queue, active_tasks, user_settings, files, nextId, hpc, hupd,
     htask, hreply, wpc, task, cleanup_unpacked, conv, sent,
     downloads, enqueued, started, convRuns, trouble, uploadsLeft,
     faultsLeft, settingsLeft, lastSet, coverlessLeft >>

frontVars == << hpc, hupd, htask, hreply >>
workerVars == << wpc, task, cleanup_unpacked, conv >>
prefVars == << settingsLeft, lastSet >>
histVars == << enqueued, started, convRuns >>

TaskIds == 1..MaxJobs

\* ------------------------------------------------------------ pure helpers

Range(s) == {s[i] : i \in 1..Len(s)}

\* str.lower() on a name part.
LowerPart(p) ==
  CASE p = "Book" -> "book"
    [] p = "FB2" -> "fb2"
    [] OTHER -> p

\* doc.file_name.lower() if doc.file_name else ""
Lower(name) == [i \in 1..Len(name) |-> LowerPart(name[i])]

\* fname.endswith("." + suffix): the last parts are the suffix's, after a dot.
EndsWith(fname, suffix) ==
  /\ Len(fname) > Len(suffix)
  /\ SubSeq(fname, Len(fname) - Len(suffix) + 1, Len(fname)) = suffix

\* any(fname.endswith(fmt) for fmt in supported_formats)
IsSupported(fname) == \E fmt \in supported_formats : EndsWith(fname, fmt)

\* A queue that counts as full one job late.
QueueFull_OneLate(q) == Len(q) > QueueMaxSize

\* conversion_queue.full()
QueueFull(q) == Len(q) >= QueueMaxSize

\* A lookup that does not read the row.
get_preferred_format_NoRow(rows, user_id) == DefaultFormat

\* UserSettings.get_preferred_format
get_preferred_format(rows, user_id) ==
  IF \E r \in rows : r.user_id = user_id
    THEN (CHOOSE r \in rows : r.user_id = user_id).preferred_format
    ELSE DefaultFormat

\* An INSERT that replaces nothing.
set_preferred_format_Insert(rows, user_id, format) ==
  rows \cup {[user_id |-> user_id, preferred_format |-> format]}

\* UserSettings.set_preferred_format: INSERT OR REPLACE on the primary key.
set_preferred_format(rows, user_id, format) ==
  {r \in rows : r.user_id # user_id}
    \cup {[user_id |-> user_id, preferred_format |-> format]}

\* The paths of a task: tmp/in_<id><ext>, tmp/out_<id>.<format>,
\* <input_path>.cover.jpg, in_<id>.unpacked.fb2.
InputPath(id) == <<"in", id>>
OutputPath(id) == <<"out", id>>
CoverPath(id) == <<"cover", id>>

\* tempfile.NamedTemporaryFile(suffix='.jpg', delete=False) of
\* extract_cover_improved: a file in the system temp directory, made for the
\* job whose cover is being looked for.
TempCoverPath(id) == <<"tmp_cover", id>>
UnpackedPath(id) == <<"unpacked", id>>

\* A verdict that does not look at the size of the output file.
ConvertSuccess_AnySize(res) == res.exit = "zero" /\ res.out # "missing"

\* convert_book_with_cover's verdict on a finished ebook-convert.
ConvertSuccess(res) == res.exit = "zero" /\ res.out = "data"

\* The event loop is held by the worker: it is between two awaits.
Blocked == wpc \in {"loop", "tools", "convert", "converted"}

\* ----------------------------------------------------------------- initial

\* The module-level state at import, the handler idle, the worker created by
\* post_init and suspended in its first get().
Start ==
  /\ conversion_queue = <<>>
  /\ active_tasks = <<>>
  /\ user_settings = {}
  /\ files = {}
  /\ nextId = 1
  /\ hpc = "idle"
  /\ hupd = NoUpdate
  /\ htask = NoTask
  /\ hreply = "none"
  /\ wpc = "get"
  /\ task = NoTask
  /\ cleanup_unpacked = FALSE
  /\ conv = NoConvert
  /\ sent = {}
  /\ downloads = {}
  /\ enqueued = <<>>
  /\ started = <<>>
  /\ convRuns = [id \in TaskIds |-> 0]
  /\ trouble = FALSE
  /\ lastSet = [u \in SettingsUsers |-> "none"]

Init ==
  /\ Start
  /\ \E b \in Budgets :
       /\ uploadsLeft = b[1]
       /\ faultsLeft = b[2]
       /\ settingsLeft = b[3]
       /\ coverlessLeft = b[4]

FairInit ==
  /\ Start
  /\ uploadsLeft = MaxFairJobs
  /\ faultsLeft = MaxFairFaults
  /\ settingsLeft = 0
  /\ coverlessLeft = 0

\* ------------------------------------------------------------- front end

\* output_ext = f".{...}": an extension is a dot and the name after it, in
\* dot-separated parts an empty part and the name.
Ext(format) == <<"", format>>

\* output_ext[1:]: the extension without its dot.
StripDot(ext) == ext[2]

\* The task dict built by handle_document.  "message_id" is not a key yet.
\* output_ext is the suffix of output_path (out_<id><output_ext>).
NewTask(id, user_id, output_ext) ==
  [ task_id |-> id,
    user_id |-> user_id,
    input_path |-> InputPath(id),
    output_path |-> OutputPath(id),
    output_ext |-> output_ext,
    output_format |-> StripDot(output_ext),
    status |-> "queued",
    message_id |-> Missing ]

\* A handler that does not enter the task in the registry.
Register_Dropped(registry, id, t) == registry

\* active_tasks[simple_id] = task
Register(registry, id, t) == registry @@ (id :> t)

\* The checks without the one on the queue.
Rejection_NoQueueCheck(name, size, q) ==
  IF ~IsSupported(Lower(name)) THEN "unsupported"
  ELSE IF size > MaxFileSize THEN "too_big"
  ELSE "none"

\* The checks without the one on the size.
Rejection_NoSizeCheck(name, size, q) ==
  IF ~IsSupported(Lower(name)) THEN "unsupported"
  ELSE IF QueueFull(q) THEN "queue_full"
  ELSE "none"

\* The checks of handle_document, in their order: the reply of the first one
\* that fails, "none" when the upload passes.
Rejection(name, size, q) ==
  IF ~IsSupported(Lower(name)) THEN "unsupported"
  ELSE IF size > MaxFileSize THEN "too_big"
  ELSE IF QueueFull(q) THEN "queue_full"
  ELSE "none"

\* handle_document, from the update to its first await: the three checks,
\* each answered with a reply, then the task dict, its registration and the
\* call of get_file.
HandleDocument(user, name, size) ==
  /\ hpc = "idle"
  /\ ~Blocked
  /\ hupd' = [user |-> user, name |-> name, size |-> size]
  /\ hreply' = Rejection(name, size, conversion_queue)
  /\ IF hreply' # "none"
       THEN /\ hpc' = "reject"
            /\ UNCHANGED << active_tasks, nextId, htask, downloads, uploadsLeft >>
       ELSE /\ uploadsLeft > 0
            /\ uploadsLeft' = uploadsLeft - 1
            /\ active_tasks' =
                 Register(active_tasks, nextId,
                          NewTask(nextId, user,
                                  Ext(get_preferred_format(user_settings,
                                                           user))))
            /\ nextId' = nextId + 1
            /\ htask' = nextId
            /\ downloads' = downloads \cup {nextId}
            /\ hpc' = "download"
  /\ UNCHANGED << conversion_queue, user_settings, files, sent, trouble,
                  faultsLeft >>
  /\ UNCHANGED workerVars
  /\ UNCHANGED histVars
  /\ UNCHANGED prefVars
  /\ UNCHANGED coverlessLeft

\* The reply of a rejected upload returned (or raised): the handler returns.
HandleDocumentRejected ==
  /\ hpc = "reject"
  /\ ~Blocked
  /\ hpc' = "idle"
  /\ hupd' = NoUpdate
  /\ hreply' = "none"
  /\ UNCHANGED << conversion_queue, active_tasks, user_settings, files, nextId,
                  htask, sent, downloads, faultsLeft >>
  /\ UNCHANGED workerVars
  /\ UNCHANGED histVars
  /\ UNCHANGED << trouble, uploadsLeft >>
  /\ UNCHANGED prefVars
  /\ UNCHANGED coverlessLeft

\* conversion_queue.put(task): appends when the queue has room, and suspends
\* the handler otherwise.
QueuePut(q, id) == IF QueueFull(q) THEN q ELSE Append(q, id)

\* get_file and download_to_drive returned or raised, the size was read.  A
\* good download goes on to put the task and to send the "queued" reply; a
\* bad one to the error reply.
HandleDocumentDownloaded(outcome) ==
  /\ hpc = "download"
  /\ ~Blocked
  /\ IF outcome = "ok"
       THEN /\ files' = files \cup {InputPath(htask)}
            /\ conversion_queue' = QueuePut(conversion_queue, htask)
            /\ IF QueueFull(conversion_queue)
                 THEN /\ hpc' = "put"
                      /\ UNCHANGED << hreply, enqueued >>
                 ELSE /\ hpc' = "queued_reply"
                      /\ hreply' = "queued"
                      /\ enqueued' = Append(enqueued, htask)
            /\ UNCHANGED faultsLeft
       ELSE /\ faultsLeft > 0
            /\ faultsLeft' = faultsLeft - 1
            /\ files' = IF outcome = "error" THEN files
                        ELSE files \cup {InputPath(htask)}
            /\ hpc' = "error_reply"
            /\ hreply' = "download_error"
            /\ UNCHANGED << conversion_queue, enqueued >>
  /\ hupd' = NoUpdate
  /\ UNCHANGED << active_tasks, user_settings, nextId, htask, sent, downloads,
                  started, convRuns >>
  /\ UNCHANGED workerVars
  /\ UNCHANGED << trouble, uploadsLeft >>
  /\ UNCHANGED prefVars
  /\ UNCHANGED coverlessLeft

\* The error reply returned: the input file is unlinked (missing_ok) and the
\* handler returns.  When the reply raised, the handler ends before the unlink.
HandleDocumentErrorReplied(call) ==
  /\ hpc = "error_reply"
  /\ ~Blocked
  /\ IF call = "ok"
       THEN /\ files' = files \ {InputPath(htask)}
            /\ UNCHANGED faultsLeft
       ELSE /\ faultsLeft > 0
            /\ faultsLeft' = faultsLeft - 1
            /\ UNCHANGED files
  /\ hpc' = "idle"
  /\ htask' = NoTask
  /\ hreply' = "none"
  /\ UNCHANGED << conversion_queue, active_tasks, user_settings, nextId, hupd,
                  sent, downloads >>
  /\ UNCHANGED workerVars
  /\ UNCHANGED histVars
  /\ UNCHANGED << trouble, uploadsLeft >>
  /\ UNCHANGED prefVars
  /\ UNCHANGED coverlessLeft

\* The "queued" reply returned: task["message_id"] is set on the task dict
\* (the dict the queue and the registry share).  When the reply raised, the
\* handler ends with the key unset.  A handler suspended in put() resumes here
\* once the queue has room.
HandleDocumentQueued(call) ==
  /\ hpc \in {"put", "queued_reply"}
  /\ ~Blocked
  /\ IF hpc = "put"
       THEN /\ ~QueueFull(conversion_queue)
            /\ call = "ok"
            /\ conversion_queue' = Append(conversion_queue, htask)
            /\ enqueued' = Append(enqueued, htask)
            /\ hpc' = "queued_reply"
            /\ hreply' = "queued"
            /\ UNCHANGED << active_tasks, htask, faultsLeft >>
       ELSE /\ IF call = "ok"
                 THEN /\ active_tasks' =
                           IF htask \in DOMAIN active_tasks
                             THEN [active_tasks EXCEPT ![htask].message_id = "msg"]
                             ELSE active_tasks
                      /\ UNCHANGED faultsLeft
                 ELSE /\ faultsLeft > 0
                      /\ faultsLeft' = faultsLeft - 1
                      /\ UNCHANGED active_tasks
            /\ hpc' = "idle"
            /\ htask' = NoTask
            /\ hreply' = "none"
            /\ UNCHANGED << conversion_queue, enqueued >>
  /\ UNCHANGED << user_settings, files, nextId, hupd, sent, downloads,
                  started, convRuns >>
  /\ UNCHANGED workerVars
  /\ UNCHANGED << trouble, uploadsLeft >>
  /\ UNCHANGED prefVars
  /\ UNCHANGED coverlessLeft

\* A settings callback that also rewrites the format of the user's jobs.
HandleFormatSetting_Retargets(user, fmt) ==
  /\ hpc = "idle"
  /\ ~Blocked
  /\ settingsLeft > 0
  /\ settingsLeft' = settingsLeft - 1
  /\ user_settings' = set_preferred_format(user_settings, user, fmt)
  /\ lastSet' = [lastSet EXCEPT ![user] = fmt]
  /\ active_tasks' =
       [id \in DOMAIN active_tasks |->
          IF active_tasks[id].user_id = user
            THEN [active_tasks[id] EXCEPT !.output_ext = Ext(fmt),
                                          !.output_format = fmt]
            ELSE active_tasks[id]]
  /\ UNCHANGED << conversion_queue, files, nextId, sent, downloads,
                  faultsLeft >>
  /\ UNCHANGED frontVars
  /\ UNCHANGED workerVars
  /\ UNCHANGED histVars
  /\ UNCHANGED << trouble, uploadsLeft, coverlessLeft >>

\* handle_format_setting: a callback query with data "setfmt:<fmt>" stores
\* <fmt> as the user's format.  The answer before it and the edit and reply after it
\* change nothing of the state.
HandleFormatSetting(user, fmt) ==
  /\ hpc = "idle"
  /\ ~Blocked
  /\ settingsLeft > 0
  /\ settingsLeft' = settingsLeft - 1
  /\ user_settings' = set_preferred_format(user_settings, user, fmt)
  /\ lastSet' = [lastSet EXCEPT ![user] = fmt]
  /\ UNCHANGED << conversion_queue, active_tasks, files, nextId, sent,
                  downloads, faultsLeft >>
  /\ UNCHANGED frontVars
  /\ UNCHANGED workerVars
  /\ UNCHANGED histVars
  /\ UNCHANGED << trouble, uploadsLeft, coverlessLeft >>

\* ----------------------------------------------------------------- worker

\* The cleanup at the end of an iteration: the files of cleanup_files and the
\* unpacked copy are unlinked.
CleanupFiles(fs, id, unpacked) ==
  fs \ ( {InputPath(id), OutputPath(id), CoverPath(id)}
         \cup (IF unpacked THEN {UnpackedPath(id)} ELSE {}) )

\* active_tasks.pop(task_id, None)
Pop(registry, id) == [k \in DOMAIN registry \ {id} |-> registry[k]]

\* A get() that returns the newest job.
QueueGet_Newest(q) == q[Len(q)]

\* conversion_queue.get() on a queue that holds a job: its oldest one.
QueueGet(q) == Head(q)

\* A worker that does not write the status.
SetStatus_Skipped(registry, id, status) == registry

\* active_tasks[task_id]["status"] = status
SetStatus(registry, id, status) == [registry EXCEPT ![id].status = status]

\* A get() that leaves the job in the queue.
Remove_Keeps(q, id) == q

\* The queue without the job that get() returned.
Remove(q, id) == SelectSeq(q, LAMBDA x : x # id)

\* "while True: try: task = await conversion_queue.get()" with a job in the
\* queue: the job is dequeued and its registry entry set to "converting".  A
\* task id the registry does not hold raises KeyError, caught by the loop.
WorkerGet ==
  /\ wpc \in {"get", "loop"}
  /\ conversion_queue # <<>>
  /\ LET id == QueueGet(conversion_queue) IN
       /\ conversion_queue' = Remove(conversion_queue, id)
       /\ task' = id
       /\ started' = Append(started, id)
       /\ IF id \in DOMAIN active_tasks
            THEN /\ active_tasks' = SetStatus(active_tasks, id, "converting")
                 /\ wpc' = "tools"
                 /\ UNCHANGED trouble
            ELSE /\ wpc' = "sleep"
                 /\ trouble' = TRUE
                 /\ UNCHANGED active_tasks
  /\ UNCHANGED << user_settings, files, nextId, cleanup_unpacked,
                  conv, sent, downloads, enqueued, convRuns, faultsLeft >>
  /\ UNCHANGED frontVars
  /\ UNCHANGED uploadsLeft
  /\ UNCHANGED prefVars
  /\ UNCHANGED coverlessLeft

\* get() on an empty queue: the worker suspends until a put.
WorkerWait ==
  /\ wpc = "loop"
  /\ conversion_queue = <<>>
  /\ wpc' = "get"
  /\ UNCHANGED << conversion_queue, active_tasks, user_settings, files, nextId,
                  task, cleanup_unpacked, conv, sent, downloads,
                  faultsLeft >>
  /\ UNCHANGED frontVars
  /\ UNCHANGED histVars
  /\ UNCHANGED << trouble, uploadsLeft >>
  /\ UNCHANGED prefVars
  /\ UNCHANGED coverlessLeft

\* ebook-convert is started by convert_book_with_cover (subprocess.run).
StartConvert(runs, id) == [runs EXCEPT ![id] = @ + 1]

\* What extract_cover_improved leaves behind besides cover_path: when no
\* method finds a cover of more than 1000 bytes, the temp file of the last
\* method is not unlinked (it is unlinked only after being copied).
LeftByCoverSearch(cover, id) ==
  IF cover = "found" THEN {} ELSE {TempCoverPath(id)}

\* unpack_if_needed, extract_metadata and extract_cover_improved returned
\* (title, author and has_cover only word the messages and choose the --cover
\* flag); then the status edit: a task without "message_id" raises KeyError inside
\* the inner try and the worker goes on to the conversion without awaiting.
WorkerTools(unpack, cover) ==
  /\ wpc = "tools"
  /\ IF cover = "found"
       THEN UNCHANGED coverlessLeft
       ELSE /\ coverlessLeft > 0
            /\ coverlessLeft' = coverlessLeft - 1
  /\ cleanup_unpacked' = (unpack = "unpacked")
  /\ files' = files
       \cup (IF unpack = "unpacked" THEN {UnpackedPath(task)} ELSE {})
       \cup (IF cover \in {"found", "small"} THEN {CoverPath(task)} ELSE {})
       \cup LeftByCoverSearch(cover, task)
  /\ IF active_tasks[task].message_id = Missing
       THEN /\ wpc' = "convert"
            /\ convRuns' = StartConvert(convRuns, task)
       ELSE /\ wpc' = "edit"
            /\ UNCHANGED convRuns
  /\ UNCHANGED << conversion_queue, active_tasks, user_settings, nextId, task,
                  conv, sent, downloads, enqueued, started, faultsLeft >>
  /\ UNCHANGED frontVars
  /\ UNCHANGED << trouble, uploadsLeft >>
  /\ UNCHANGED prefVars

\* edit_message_text returned or raised (the inner try logs it): the worker
\* calls convert_book_with_cover.
WorkerEdited ==
  /\ wpc = "edit"
  /\ wpc' = "convert"
  /\ convRuns' = StartConvert(convRuns, task)
  /\ UNCHANGED << conversion_queue, active_tasks, user_settings, files, nextId,
                  task, cleanup_unpacked, conv, sent, downloads,
                  enqueued, started, faultsLeft >>
  /\ UNCHANGED frontVars
  /\ UNCHANGED << trouble, uploadsLeft >>
  /\ UNCHANGED prefVars
  /\ UNCHANGED coverlessLeft

\* ebook-convert ended (subprocess.run returned or raised TimeoutExpired),
\* leaving its output file or none.
WorkerConverted(res) ==
  /\ wpc = "convert"
  /\ wpc' = "converted"
  /\ conv' = res
  /\ files' = IF res.out = "missing" THEN files
              ELSE files \cup {OutputPath(task)}
  /\ UNCHANGED << conversion_queue, active_tasks, user_settings, nextId, task,
                  cleanup_unpacked, sent, downloads, faultsLeft >>
  /\ UNCHANGED frontVars
  /\ UNCHANGED histVars
  /\ UNCHANGED << trouble, uploadsLeft >>
  /\ UNCHANGED prefVars
  /\ UNCHANGED coverlessLeft

\* "if success and output_p.exists()": the branch of the worker after
\* convert_book_with_cover returned (success, diag).
TakesDelivery(success, fs, id) == success /\ OutputPath(id) \in fs

\* convert_book_with_cover returns its verdict; the worker starts
\* send_document or the send_message of the failure text.
WorkerResult ==
  /\ wpc = "converted"
  /\ wpc' = IF TakesDelivery(ConvertSuccess(conv), files, task)
              THEN "send_doc" ELSE "send_fail"
  /\ conv' = NoConvert
  /\ trouble' = (trouble \/ wpc' = "send_fail")
  /\ UNCHANGED << conversion_queue, active_tasks, user_settings, files, nextId,
                  task, cleanup_unpacked, sent, downloads, faultsLeft >>
  /\ UNCHANGED frontVars
  /\ UNCHANGED histVars
  /\ UNCHANGED uploadsLeft
  /\ UNCHANGED prefVars
  /\ UNCHANGED coverlessLeft

\* An outbound message of the worker for a job; n numbers the messages of the
\* chat log, so that the same text sent twice is two messages.
Message(id, kind) ==
  [ chat_id |-> active_tasks[id].user_id, task_id |-> id, kind |-> kind,
    n |-> Cardinality(sent) + 1 ]

\* The end of an iteration that raised nothing: cleanup, task_done, pop, and
\* back to the head of the loop.  The locals are dead until the next task
\* assigns them.
FinishIteration ==
  /\ files' = CleanupFiles(files, task, cleanup_unpacked)
  /\ active_tasks' = Pop(active_tasks, task)
  /\ wpc' = "loop"
  /\ cleanup_unpacked' = FALSE
  /\ UNCHANGED << task, conv >>

\* An exception reached "except Exception": it is logged and the worker
\* sleeps 5 seconds.  Nothing of the iteration's tail has run.
RaiseInIteration ==
  /\ faultsLeft > 0
  /\ faultsLeft' = faultsLeft - 1
  /\ wpc' = "sleep"
  /\ trouble' = TRUE
  /\ UNCHANGED << files, active_tasks, task, cleanup_unpacked, conv,
                  sent >>

\* A worker that falls through to the failure text after the document.
NextAfterDocument_FallsThrough == "send_fail"

\* After send_document the worker sends the "ready" (or advice) message: the
\* failure text is in the else branch.
NextAfterDocument == "send_msg"

\* send_document returned or raised.
WorkerSentDocument(call) ==
  /\ wpc = "send_doc"
  /\ IF call = "ok"
       THEN /\ sent' = sent \cup {Message(task, "document")}
            /\ wpc' = NextAfterDocument
            /\ UNCHANGED << files, active_tasks, task, cleanup_unpacked, conv,
                            faultsLeft, trouble >>
       ELSE RaiseInIteration
  /\ UNCHANGED << conversion_queue, user_settings, nextId, downloads >>
  /\ UNCHANGED frontVars
  /\ UNCHANGED histVars
  /\ UNCHANGED uploadsLeft
  /\ UNCHANGED prefVars
  /\ UNCHANGED coverlessLeft

\* The send_message that follows the document returned or raised.
WorkerSentReady(call) ==
  /\ wpc = "send_msg"
  /\ IF call = "ok"
       THEN /\ sent' = sent \cup {Message(task, "ready")}
            /\ FinishIteration
            /\ UNCHANGED << faultsLeft, trouble >>
       ELSE RaiseInIteration
  /\ UNCHANGED << conversion_queue, user_settings, nextId, downloads >>
  /\ UNCHANGED frontVars
  /\ UNCHANGED histVars
  /\ UNCHANGED uploadsLeft
  /\ UNCHANGED prefVars
  /\ UNCHANGED coverlessLeft

\* The send_message of the failure text returned or raised.
WorkerSentFailure(call) ==
  /\ wpc = "send_fail"
  /\ IF call = "ok"
       THEN /\ sent' = sent \cup {Message(task, "failure")}
            /\ FinishIteration
            /\ UNCHANGED << faultsLeft, trouble >>
       ELSE RaiseInIteration
  /\ UNCHANGED << conversion_queue, user_settings, nextId, downloads >>
  /\ UNCHANGED frontVars
  /\ UNCHANGED histVars
  /\ UNCHANGED uploadsLeft
  /\ UNCHANGED prefVars
  /\ UNCHANGED coverlessLeft

\* A worker that ends at the exception instead of going round.
WorkerSlept_Ends ==
  /\ wpc = "sleep"
  /\ wpc' = "ended"
  /\ cleanup_unpacked' = FALSE
  /\ UNCHANGED << conversion_queue, active_tasks, user_settings, files, nextId,
                  task, conv, sent, downloads, faultsLeft >>
  /\ UNCHANGED frontVars
  /\ UNCHANGED histVars
  /\ UNCHANGED << trouble, uploadsLeft >>
  /\ UNCHANGED prefVars
  /\ UNCHANGED coverlessLeft

\* asyncio.sleep(5) returned: the loop goes round.
WorkerSlept ==
  /\ wpc = "sleep"
  /\ wpc' = "loop"
  /\ cleanup_unpacked' = FALSE
  /\ UNCHANGED << conversion_queue, active_tasks, user_settings, files, nextId,
                  task, conv, sent, downloads, faultsLeft >>
  /\ UNCHANGED frontVars
  /\ UNCHANGED histVars
  /\ UNCHANGED << trouble, uploadsLeft >>
  /\ UNCHANGED prefVars
  /\ UNCHANGED coverlessLeft

\* ------------------------------------------------------------ specification

Worker ==
  \/ WorkerGet
  \/ WorkerWait
  \/ \E unpack \in UnpackOutcomes, cover \in CoverOutcomes :
       WorkerTools(unpack, cover)
  \/ WorkerEdited
  \/ \E res \in ConvertOutcomes : WorkerConverted(res)
  \/ WorkerResult
  \/ \E call \in CallOutcomes : WorkerSentDocument(call)
  \/ \E call \in CallOutcomes : WorkerSentReady(call)
  \/ \E call \in CallOutcomes : WorkerSentFailure(call)
  \/ WorkerSlept

Upload ==
  \/ \E user \in Users, name \in FileNames, size \in FileSizes :
       HandleDocument(user, name, size)
  \/ HandleDocumentRejected
  \/ \E outcome \in DownloadOutcomes : HandleDocumentDownloaded(outcome)
  \/ \E call \in CallOutcomes : HandleDocumentErrorReplied(call)
  \/ \E call \in CallOutcomes : HandleDocumentQueued(call)

Settings ==
  \E user \in SettingsUsers, fmt \in CallbackFormats :
    HandleFormatSetting(user, fmt)

UploadNext == Worker \/ Upload

Next == UploadNext \/ Settings

Spec == Init /\ [][Next]_vars

\* The event loop resumes the worker whenever the call it awaits has ended:
\* chat calls return or raise, ebook-convert runs under timeout=300, sleep(5)
\* returns, and get() returns once the queue holds a job.
FairSpec == FairInit /\ [][UploadNext]_vars /\ WF_vars(Worker)

\* ------------------------------------------------------------------ claims

\* The names of FileNames that end in .fb2, .fb2.zip or .epub, the letters
\* read without regard to case.
BookNames ==
  { n \in FileNames :
      \/ /\ Len(n) >= 2
         /\ LowerPart(n[Len(n)]) \in {"fb2", "epub"}
      \/ /\ Len(n) >= 3
         /\ LowerPart(n[Len(n)]) = "zip"
         /\ LowerPart(n[Len(n) - 1]) = "fb2" }

\* C1: in every reachable state the conversion queue holds at most 5 jobs
\* awaiting processing.
C1_QueueAtMostFive == Len(conversion_queue) <= 5

\* The queue holds 5 jobs.
C1_Witness == Len(conversion_queue) = 5

\* C2: when handle_document receives a file with a supported extension and an
\* allowed size while the queue holds 5 jobs, the upload is answered with the
\* queue-full message, and from the update to the handler's return the queue,
\* the registry and the temp files are unchanged and no download is requested.
C2_FullQueueRejects ==
  [][ /\ ( /\ hpc = "idle"
           /\ hpc' # "idle"
           /\ hupd'.name \in BookNames
           /\ hupd'.size <= 50 * 1024 * 1024
           /\ Len(conversion_queue) = 5 )
         => /\ hpc' = "reject"
            /\ hreply' = "queue_full"
            /\ conversion_queue' = conversion_queue
            /\ active_tasks' = active_tasks
            /\ files' = files
            /\ downloads' = downloads
      /\ ( /\ hpc = "reject"
           /\ hreply = "queue_full"
           /\ hpc' # "reject" )
         => /\ hpc' = "idle"
            /\ conversion_queue' = conversion_queue
            /\ active_tasks' = active_tasks
            /\ files' = files
            /\ downloads' = downloads ]_vars

\* A valid upload was answered with the queue-full message, the queue at 5.
C2_Witness ==
  /\ hpc = "reject"
  /\ hreply = "queue_full"
  /\ hupd.name \in BookNames
  /\ hupd.size <= 50 * 1024 * 1024
  /\ Len(conversion_queue) = 5

\* C3: an upload whose file name does not end in .fb2, .fb2.zip or .epub
\* (letters read without regard to case), or whose size is over 50 MB, is
\* rejected before any job is created: from the update to the handler's return
\* no registry entry is added, nothing is enqueued, no task id is drawn, no
\* file is written and no download is requested.
C3_InvalidRejectedBeforeJob ==
  [][ /\ ( /\ hpc = "idle"
           /\ hpc' # "idle"
           /\ \/ hupd'.name \notin BookNames
              \/ hupd'.size > 50 * 1024 * 1024 )
         => /\ hpc' = "reject"
            /\ hreply' = IF hupd'.name \notin BookNames
                           THEN "unsupported" ELSE "too_big"
            /\ active_tasks' = active_tasks
            /\ conversion_queue' = conversion_queue
            /\ enqueued' = enqueued
            /\ nextId' = nextId
            /\ files' = files
            /\ downloads' = downloads
      /\ ( /\ hpc = "reject"
           /\ hreply \in {"unsupported", "too_big"}
           /\ hpc' # "reject" )
         => /\ hpc' = "idle"
            /\ active_tasks' = active_tasks
            /\ conversion_queue' = conversion_queue
            /\ enqueued' = enqueued
            /\ nextId' = nextId
            /\ files' = files
            /\ downloads' = downloads ]_vars

\* A book of more than 50 MB was rejected while the registry held jobs.
C3_Witness ==
  /\ hpc = "reject"
  /\ hreply = "too_big"
  /\ hupd.name \in BookNames
  /\ hupd.size > 50 * 1024 * 1024
  /\ DOMAIN active_tasks # {}

\* C4: for every job, the worker never sends both the converted file and a
\* conversion-failure message: at most one of the two is in the chat log.
C4_NeverBoth ==
  \A id \in TaskIds :
    ~ ( /\ \E m \in sent : m.task_id = id /\ m.kind = "document"
        /\ \E m \in sent : m.task_id = id /\ m.kind = "failure" )

\* The worker has sent a converted file for one job and a failure message for
\* another.
C4_Witness ==
  /\ \E m \in sent : m.kind = "document"
  /\ \E m \in sent : m.kind = "failure"

\* The worker is done with job id: it dequeued the job and has since gone back
\* to the head of its loop or on to another job.
DoneWith(id) ==
  /\ \E i \in 1..Len(started) : started[i] = id
  /\ \/ task # id
     \/ wpc \in {"loop", "get"}

\* C5: every job that was placed on the queue has either its converted file or
\* a failure message sent to its submitter, also when a chat call made while
\* handling the job raises.  The worker sends for a job only while it holds
\* it, so the claim is stated at the point the worker is done with the job.
C5_DoneJobsAnswered ==
  \A id \in TaskIds :
    DoneWith(id) =>
      \E m \in sent : m.task_id = id /\ m.kind \in {"document", "failure"}

\* C6: for every job the worker has dequeued, by the time the worker is back
\* at waiting for the next job the job's source and destination files do not
\* exist and the job is out of the registry, whether the job succeeded,
\* failed, or its handling raised.
C6_DoneJobsCleaned ==
  wpc \in {"loop", "get"} =>
    \A i \in 1..Len(started) :
      /\ InputPath(started[i]) \notin files
      /\ OutputPath(started[i]) \notin files
      /\ started[i] \notin DOMAIN active_tasks

\* C7: the worker loop does not end because of one job: after a conversion
\* failure or an exception raised while handling a job, every job waiting in
\* the queue is eventually dequeued and converted.
C7_WorkerGoesOn ==
  \A id \in 1..MaxFairJobs :
    (trouble /\ \E i \in 1..Len(conversion_queue) : conversion_queue[i] = id)
      ~> (convRuns[id] > 0)

\* After an iteration that raised (its job is still registered) the worker is
\* converting a later job.
C7_Witness ==
  /\ trouble
  /\ wpc = "convert"
  /\ \E id \in DOMAIN active_tasks :
       /\ id # task
       /\ \E i \in 1..Len(started) : started[i] = id

\* C8: a job takes the delivery path (send_document is called, and a document
\* is sent only on it) exactly when ebook-convert exited with code 0 and left
\* a non-empty output file; when it exited non-zero, timed out, or left a
\* missing or empty output, the job takes the failure path (the failure text
\* is sent, and only on it).
C8_DeliveryIffConverted ==
  [][ /\ wpc = "converted" =>
           IF conv.exit = "zero" /\ conv.out = "data"
             THEN wpc' = "send_doc"
             ELSE wpc' = "send_fail"
      /\ (wpc' = "send_doc" /\ wpc # "send_doc") => wpc = "converted"
      /\ (wpc' = "send_fail" /\ wpc # "send_fail") => wpc = "converted"
      /\ \A m \in sent' \ sent :
           /\ m.task_id = task
           /\ m.kind = "document" => wpc = "send_doc"
           /\ m.kind = "failure" => wpc = "send_fail"
           /\ m.kind = "ready" => wpc = "send_msg" ]_vars

\* ebook-convert left an output file and the worker is on the failure path
\* (the exit code was not 0, or the file is empty), an earlier job delivered.
C8_Witness ==
  /\ wpc = "send_fail"
  /\ OutputPath(task) \in files
  /\ \E m \in sent : m.task_id # task /\ m.kind = "document"

\* C9: jobs are processed in strict FIFO order: the jobs the worker has
\* started are, in order, the first jobs that were enqueued.
C9_Fifo ==
  /\ Len(started) <= Len(enqueued)
  /\ \A i \in 1..Len(started) : started[i] = enqueued[i]

\* The worker has started two jobs and two more wait in the queue.
C9_Witness ==
  /\ Len(started) >= 2
  /\ Len(conversion_queue) >= 2

\* C10: at every moment at most one job is in the converting state and at
\* most one conversion subprocess is in flight.
C10_OneConverting ==
  /\ Cardinality({id \in DOMAIN active_tasks :
                    active_tasks[id].status = "converting"}) <= 1
  /\ Cardinality({id \in TaskIds : wpc = "convert" /\ task = id}) <= 1

\* The number of jobs the worker holds: it has dequeued one and has not yet
\* ended the iteration for it.
Converting ==
  IF wpc \in {"tools", "edit", "convert", "converted", "send_doc", "send_msg",
              "send_fail"}
    THEN 1 ELSE 0

\* C11 (as stated): the number of jobs that are queued plus the job currently
\* being converted never exceeds 5.
C11_QueuedPlusConvertingAtMostFive == Len(conversion_queue) + Converting <= 5

\* C11 (amended): the queue holds at most 5 jobs and the worker at most one
\* more: queued plus converting never exceeds 6.
C11_QueuedPlusConvertingAtMostSix ==
  /\ Len(conversion_queue) <= 5
  /\ Len(conversion_queue) + Converting <= 6

\* Five jobs wait while ebook-convert runs for a sixth.
C11_Witness ==
  /\ Len(conversion_queue) = 5
  /\ wpc = "convert"

\* C12: after any sequence of set_preferred_format calls,
\* get_preferred_format(u) returns the value of the most recent set for user
\* u, and 'azw3' when no set for u was ever made.
C12_GetReturnsLastSet ==
  \A u \in SettingsUsers :
    get_preferred_format(user_settings, u) =
      IF lastSet[u] = "none" THEN "azw3" ELSE lastSet[u]

\* User 1 has set a format twice, the last one mobi; user 2 never has.
C12_Witness ==
  /\ settingsLeft = 0
  /\ lastSet[1] = "mobi"
  /\ lastSet[2] = "none"
  /\ Cardinality(user_settings) = 1

\* C13: a job's destination file extension and recorded output format equal
\* the submitter's preferred format as stored when handle_document accepts
\* the upload ('azw3' when none is stored), and stay so for the job's life.
C13_JobFormatIsPreference ==
  [][ \A id \in TaskIds :
        /\ (id \notin DOMAIN active_tasks /\ id \in DOMAIN active_tasks') =>
             LET u == active_tasks'[id].user_id
                 pref == IF lastSet[u] = "none" THEN "azw3" ELSE lastSet[u]
             IN  /\ active_tasks'[id].output_ext = <<"", pref>>
                 /\ active_tasks'[id].output_format = pref
        /\ (id \in DOMAIN active_tasks /\ id \in DOMAIN active_tasks') =>
             /\ active_tasks'[id].output_ext = active_tasks[id].output_ext
             /\ active_tasks'[id].output_format =
                  active_tasks[id].output_format ]_vars

\* A job accepted while the user's format was mobi is being converted to
\* .mobi after the user has changed the format to epub.
C13_Witness ==
  /\ wpc = "convert"
  /\ active_tasks[task].output_ext = <<"", "mobi">>
  /\ active_tasks[task].output_format = "mobi"
  /\ lastSet[active_tasks[task].user_id] = "epub"

\* C14: a submission handler never suspends at the enqueue step: whenever
\* handle_document reaches its put the queue is not full and the job is
\* appended at once.
C14_PutNeverSuspends ==
  [][ /\ hpc' # "put"
      /\ (hpc = "download" /\ hpc' # "download" /\ hpc' # "error_reply") =>
           /\ Len(conversion_queue) < 5
           /\ hpc' = "queued_reply"
           /\ conversion_queue' = Append(conversion_queue, htask) ]_vars

\* The put of an accepted upload has filled the queue to 5.
C14_Witness ==
  /\ hpc = "queued_reply"
  /\ Len(conversion_queue) = 5
  /\ conversion_queue[5] = htask

\* The messages and documents the worker has sent for job id.
SentFor(id) == {m \in sent : m.task_id = id}

\* The worker has ended the iteration of job id: the job was dequeued and has
\* left the registry.
Finished(id) ==
  /\ \E i \in 1..Len(started) : started[i] = id
  /\ id \notin DOMAIN active_tasks

\* C15 (as stated): each job that reaches a terminal outcome causes exactly
\* one new outbound message or document to be sent to the submitter.
C15_OneMessagePerJob ==
  \A id \in TaskIds : Finished(id) => Cardinality(SentFor(id)) = 1

\* C15 (amended): a job that ends in failure gets exactly one new message,
\* the failure text; a job that ends in success gets exactly two, the
\* document and one text message after it.  No job gets a text of a kind
\* twice, the text after the document without the document, or both the
\* document and the failure text.
C15_OneOrTwoMessagesPerJob ==
  \A id \in TaskIds :
    LET kinds == {m.kind : m \in SentFor(id)} IN
      /\ Cardinality(SentFor(id)) = Cardinality(kinds)
      /\ "ready" \in kinds => "document" \in kinds
      /\ ~ ("document" \in kinds /\ "failure" \in kinds)
      /\ Finished(id) => \/ kinds = {"failure"}
                         \/ kinds = {"document", "ready"}

\* One job has ended with the document and the text after it, another with
\* the failure text.
C15_Witness ==
  \E a, b \in TaskIds :
    /\ Finished(a)
    /\ Finished(b)
    /\ {m.kind : m \in SentFor(a)} = {"document", "ready"}
    /\ {m.kind : m \in SentFor(b)} = {"failure"}

\* C16: when the download of an accepted upload fails or yields an empty
\* file, the job is aborted before enqueue and leaves no trace: once the
\* handler has returned the job is not in the queue, its input file does not
\* exist and the registry holds no entry for it.
C16_AbortedJobLeavesNoTrace ==
  \A id \in downloads :
    ( /\ htask # id
      /\ \A i \in 1..Len(enqueued) : enqueued[i] # id )
    => /\ \A i \in 1..Len(conversion_queue) : conversion_queue[i] # id
       /\ InputPath(id) \notin files
       /\ id \notin DOMAIN active_tasks

\* C17: a job that is queued and not yet dequeued can be withdrawn by its
\* submitter: the program has a step that takes it out of the registry
\* without the worker dequeuing it.
C17_QueuedJobCanBeWithdrawn ==
  \A id \in TaskIds :
    (\E i \in 1..Len(conversion_queue) : conversion_queue[i] = id) =>
      ENABLED ( /\ Next
                /\ id \notin DOMAIN active_tasks'
                /\ started' = started )

\* C18: no job is retried: for every job ebook-convert is invoked at most
\* once and the job is dequeued at most once, also after a conversion failure
\* or a worker exception.
C18_NoRetry ==
  \A id \in TaskIds :
    /\ convRuns[id] <= 1
    /\ Cardinality({i \in 1..Len(started) : started[i] = id}) <= 1

\* After an iteration that raised, the worker has converted a later job and
\* waits again: the job of the raised iteration was converted once.
C18_Witness ==
  /\ wpc = "get"
  /\ conversion_queue = <<>>
  /\ Len(started) >= 2
  /\ \E id \in DOMAIN active_tasks :
       /\ id = started[1]
       /\ convRuns[id] = 1

\* C19: when the worker reaches the status edit for a dequeued job, the
\* job's message_id has been recorded.  (The worker does not await between the
\* edit that finds no message_id and the start of ebook-convert.)
C19_MessageIdBeforeEdit ==
  wpc \in {"edit", "convert"} => active_tasks[task].message_id # Missing

\* C20: external-tool invocations do not hold the scheduler: while the worker
\* waits for the metadata, cover or conversion tool, a front-end handler (an
\* upload or a settings change) can take a step.
C20_FrontEndRunsDuringTools ==
  wpc \in {"tools", "convert"} => ENABLED (Upload \/ Settings)

\* C21: on dequeue the worker sets the job's status from queued to
\* converting before it invokes any external tool for the job: the step that
\* dequeues the job changes the status and leaves no trace of a tool (no
\* unpacked copy, no cover, no run of ebook-convert), and the worker's job has
\* status converting for as long as the worker is in the tools or beyond them.
C21_ConvertingBeforeTools ==
  [][ /\ \A id \in TaskIds :
           started' = Append(started, id) =>
             /\ active_tasks[id].status = "queued"
             /\ active_tasks'[id].status = "converting"
             /\ convRuns'[id] = 0
             /\ UnpackedPath(id) \notin files'
             /\ CoverPath(id) \notin files'
             /\ wpc' = "tools"
      /\ wpc' \in {"tools", "edit", "convert", "converted"} =>
           active_tasks'[task'].status = "converting" ]_vars

\* The worker is inside the first tools for a job it has just dequeued; the
\* job's status is converting and another job waits with status queued.
C21_Witness ==
  /\ wpc = "tools"
  /\ active_tasks[task].status = "converting"
  /\ convRuns[task] = 0
  /\ conversion_queue # <<>>
  /\ active_tasks[conversion_queue[1]].status = "queued"

\* C22 (as stated): a job whose conversion succeeded has status completed and
\* a job whose conversion failed has status failed before the job is removed
\* from the registry.
C22_TerminalStatusBeforeRemoval ==
  [][ \A id \in TaskIds :
        (id \in DOMAIN active_tasks /\ id \notin DOMAIN active_tasks') =>
          active_tasks[id].status =
            IF \E m \in sent' : m.task_id = id /\ m.kind = "failure"
              THEN "failed" ELSE "completed" ]_vars

\* C22 (amended): a job's status is queued from its registration until the
\* worker dequeues it and converting from then on, until the entry is
\* removed: success and failure are not recorded in the status, which takes
\* no third value.
C22_QueuedThenConverting ==
  \A id \in DOMAIN active_tasks :
    active_tasks[id].status =
      IF \E i \in 1..Len(started) : started[i] = id
        THEN "converting" ELSE "queued"

\* The document of a converted job has been sent, the job is about to leave
\* the registry, and its status is converting.
C22_Witness ==
  /\ wpc = "send_msg"
  /\ \E m \in sent : m.task_id = task /\ m.kind = "document"
  /\ active_tasks[task].status = "converting"

\* C23: a temp file belonging to a job exists on disk only while the job is
\* in the registry: no file of a job is left once the job has left it
\* (unlink never fails here).
C23_NoFileWithoutJob ==
  \A f \in files : f[2] \in DOMAIN active_tasks

\* C24: with the worker scheduled fairly, every tool invocation ending and
\* every chat call returning or raising, every job placed on the queue is
\* eventually dequeued by the worker.
C24_QueuedJobIsDequeued ==
  \A id \in 1..MaxFairJobs :
    (\E i \in 1..Len(conversion_queue) : conversion_queue[i] = id)
      ~> (\E i \in 1..Len(started) : started[i] = id)

\* A job that waited in the queue behind another one has been dequeued.
C24_Witness ==
  /\ Len(started) > 1
  /\ wpc = "tools"
  /\ started[Len(started)] = task
  /\ \E i \in 1..Len(enqueued) : i > 1 /\ enqueued[i] = task

\* C25: every stored user preference and every job's requested output format
\* is one of azw3, mobi and epub, after any sequence of format-setting
\* callbacks and uploads.
C25_FormatsClosed ==
  /\ \A r \in user_settings : r.preferred_format \in Formats
  /\ \A id \in DOMAIN active_tasks :
       /\ active_tasks[id].output_format \in Formats
       /\ active_tasks[id].output_ext \in {Ext(f) : f \in Formats}

\* C26: every job in the queue has an entry in the registry under its task
\* id, so the registry lookup the worker makes on dequeue finds the key.
C26_QueuedJobsRegistered ==
  \A i \in 1..Len(conversion_queue) :
    conversion_queue[i] \in DOMAIN active_tasks

\* The worker has finished a job and removed its entry, and is about to
\* dequeue the next of several waiting jobs, whose entry is there.
C26_Witness ==
  /\ wpc = "loop"
  /\ Len(conversion_queue) > 1
  /\ Len(started) > 0
  /\ started[Len(started)] \notin DOMAIN active_tasks
  /\ QueueGet(conversion_queue) \in DOMAIN active_tasks

\* C27: a change of a user's preferred format after the user's job was
\* accepted does not change the job: the queued or converting job keeps its
\* destination extension and output format, its place in the queue and its
\* files.
C27_SettingLeavesJobsAlone ==
  [][ \A id \in DOMAIN active_tasks :
        LET u == active_tasks[id].user_id IN
        get_preferred_format(user_settings', u)
            # get_preferred_format(user_settings, u) =>
          /\ id \in DOMAIN active_tasks'
          /\ active_tasks'[id] = active_tasks[id]
          /\ conversion_queue' = conversion_queue
          /\ files' = files ]_vars

\* A job accepted with the default format is waiting in the queue and its
\* user's stored format is now another one.
C27_Witness ==
  \E i \in 1..Len(conversion_queue) :
    LET t == active_tasks[conversion_queue[i]] IN
    /\ t.output_format = "azw3"
    /\ t.output_ext = Ext("azw3")
    /\ t.status = "queued"
    /\ get_preferred_format(user_settings, t.user_id) = "epub"

\* C28: set_preferred_format(u, f) leaves the preference of every other user
\* unchanged and keeps at most one stored row per user identifier.
C28_SetTouchesOneUser ==
  [][ user_settings' # user_settings =>
        /\ \E u \in SettingsUsers :
             \A v \in SettingsUsers \ {u} :
               /\ {r \in user_settings' : r.user_id = v}
                    = {r \in user_settings : r.user_id = v}
               /\ get_preferred_format(user_settings', v)
                    = get_preferred_format(user_settings, v)
        /\ \A v \in SettingsUsers :
             Cardinality({r \in user_settings' : r.user_id = v}) <= 1 ]_vars

\* User 2 has set a format after user 1 did: both rows are stored, and user
\* 1's is the one user 1 set.
C28_Witness ==
  /\ user_settings = { [user_id |-> 1, preferred_format |-> "mobi"],
                       [user_id |-> 2, preferred_format |-> "epub"] }
  /\ lastSet[1] = "mobi"
  /\ lastSet[2] = "epub"

====
